---- MODULE Spec2Model ----
(***************************************************************************)
(* Model of the Index route component (app/routes/_index.tsx): a ref-held  *)
(* boolean guards the call of the WebAssembly module's init() inside a     *)
(* useEffect callback whose dependency list is the ref object itself.      *)
(*                                                                         *)
(* The host (React) is the environment: it mounts an instance, runs the    *)
(* queued effect callback one or more times (more than once under          *)
(* development-mode double invocation), re-renders and unmounts.           *)
(***************************************************************************)
EXTENDS Integers, Sequences, FiniteSets, TLC

\* ---------------------------------------------------------------- bounds
MaxInstances == 2      \* component instances created over a behaviour
MaxInvocations == 2    \* effect invocations the host queues at mount
MaxRenders == 2        \* renders of one instance (the first included)

Instances == 1..MaxInstances
NoObj == 0             \* "no hook state yet" (a fresh fiber)

\* ------------------------------------------------------- program constants
CanvasWidth == 1200
CanvasHeight == 600

VARIABLES
    mounted,    \* is an instance of Index currently mounted
    cur,        \* number of instances created so far; the live one when mounted
    nextObj,    \* number of ref objects allocated so far
    heap,       \* ref object -> its .current
    refOf,      \* instance -> the object `initialized` names in its last render
    deps,       \* dependency list recorded for the effect at the last commit
    pending,    \* effect callback invocations queued by the host
    dom,        \* elements the last render returned, in document order
    renders,    \* instance -> number of renders
    runs,       \* instance -> number of effect callback invocations
    calls,      \* instance -> number of init() calls made
    failed,     \* instance -> number of init() calls that raised
    uncaught    \* instance -> number of exceptions that left the callback

vars == <<mounted, cur, nextObj, heap, refOf, deps, pending, dom,
          renders, runs, calls, failed, uncaught>>

\* ------------------------------------------------------------ the program

\* init(): the default export of walk-the-dog-core; it returns or raises.
InitOutcomes == {"return", "throw"}

\* useRef<boolean>(false): the initial value of the ref
RefInitial == FALSE

\* useRef: the object kept in the instance's hook state, allocated on the
\* first render of the instance only.
useRefFresh(stored, fresh) == fresh
useRef(stored, fresh) == IF stored = NoObj THEN fresh ELSE stored

\* the dependency list of the effect: [initialized]
EffectDeps(ref) == <<ref>>

\* the effect callback: if (!initialized.current) { init(); initialized.current = true; }
\* current: the flag afterwards; called: init() was called; threw: an
\* exception left the callback.
EffectCallbackNoGuard(flag, outcome) ==
    IF outcome = "return"
    THEN [current |-> TRUE, called |-> TRUE, threw |-> FALSE]
    ELSE [current |-> flag, called |-> TRUE, threw |-> TRUE]
EffectCallbackCatch(flag, outcome) ==
    IF ~flag
    THEN IF outcome = "return"
         THEN [current |-> TRUE, called |-> TRUE, threw |-> FALSE]
         ELSE [current |-> flag, called |-> TRUE, threw |-> FALSE]
    ELSE [current |-> flag, called |-> FALSE, threw |-> FALSE]
EffectCallbackFlagFirst(flag, outcome) ==
    IF ~flag
    THEN IF outcome = "return"
         THEN [current |-> TRUE, called |-> TRUE, threw |-> FALSE]
         ELSE [current |-> TRUE, called |-> TRUE, threw |-> TRUE]
    ELSE [current |-> flag, called |-> FALSE, threw |-> FALSE]
EffectCallback(flag, outcome) ==
    IF ~flag
    THEN IF outcome = "return"
         THEN [current |-> TRUE, called |-> TRUE, threw |-> FALSE]
         ELSE [current |-> flag, called |-> TRUE, threw |-> TRUE]
    ELSE [current |-> flag, called |-> FALSE, threw |-> FALSE]

\* the JSX the component returns, flattened in document order
Element(tag, id, width, height) ==
    [tag |-> tag, id |-> id, width |-> width, height |-> height]
RenderOutputSwapped ==
    << Element("div", "", 0, 0),
       Element("h1", "", 0, 0),
       Element("canvas", "canvas", CanvasHeight, CanvasWidth) >>
RenderOutput ==
    << Element("div", "", 0, 0),
       Element("h1", "", 0, 0),
       Element("canvas", "canvas", CanvasWidth, CanvasHeight) >>

Alloc(h, ref) == IF ref \in DOMAIN h THEN h ELSE h @@ (ref :> RefInitial)

Init ==
    /\ mounted = FALSE
    /\ cur = 0
    /\ nextObj = 0
    /\ heap = << >>
    /\ refOf = [i \in Instances |-> NoObj]
    /\ deps = << >>
    /\ pending = 0
    /\ dom = << >>
    /\ renders = [i \in Instances |-> 0]
    /\ runs = [i \in Instances |-> 0]
    /\ calls = [i \in Instances |-> 0]
    /\ failed = [i \in Instances |-> 0]
    /\ uncaught = [i \in Instances |-> 0]

\* A module-level flag object shared by every instance instead of a ref.
MountShared ==
    /\ ~mounted
    /\ cur < MaxInstances
    /\ \E n \in 1..MaxInvocations :
        LET i == cur + 1
            ref == IF cur = 0 THEN nextObj + 1 ELSE refOf[cur]
        IN /\ mounted' = TRUE
           /\ cur' = i
           /\ nextObj' = IF ref = nextObj + 1 THEN ref ELSE nextObj
           /\ heap' = Alloc(heap, ref)
           /\ refOf' = [refOf EXCEPT ![i] = ref]
           /\ deps' = EffectDeps(ref)
           /\ pending' = n
           /\ dom' = RenderOutput
           /\ renders' = [renders EXCEPT ![i] = 1]
    /\ UNCHANGED <<runs, calls, failed, uncaught>>

\* First render and commit of a fresh instance: useRef allocates the ref,
\* the effect is queued (n times: once, or more under double invocation).
Mount ==
    /\ ~mounted
    /\ cur < MaxInstances
    /\ \E n \in 1..MaxInvocations :
        LET i == cur + 1
            ref == useRef(NoObj, nextObj + 1)
        IN /\ mounted' = TRUE
           /\ cur' = i
           /\ nextObj' = IF ref = nextObj + 1 THEN ref ELSE nextObj
           /\ heap' = Alloc(heap, ref)
           /\ refOf' = [refOf EXCEPT ![i] = ref]
           /\ deps' = EffectDeps(ref)
           /\ pending' = n
           /\ dom' = RenderOutput
           /\ renders' = [renders EXCEPT ![i] = 1]
    /\ UNCHANGED <<runs, calls, failed, uncaught>>

\* A later render of the mounted instance: the effect is queued again only
\* if its dependency list differs from the recorded one.
Rerender ==
    /\ mounted
    /\ renders[cur] < MaxRenders
    /\ LET ref == useRef(refOf[cur], nextObj + 1)
           nd == EffectDeps(ref)
       IN /\ nextObj' = IF ref = nextObj + 1 THEN ref ELSE nextObj
          /\ heap' = Alloc(heap, ref)
          /\ refOf' = [refOf EXCEPT ![cur] = ref]
          /\ deps' = nd
          /\ pending' = IF nd # deps THEN pending + 1 ELSE pending
          /\ dom' = RenderOutput
          /\ renders' = [renders EXCEPT ![cur] = @ + 1]
    /\ UNCHANGED <<mounted, cur, runs, calls, failed, uncaught>>

\* The host invokes one queued effect callback.
RunEffect ==
    /\ mounted
    /\ pending > 0
    /\ \E outcome \in InitOutcomes :
        LET ref == refOf[cur]
            r == EffectCallback(heap[ref], outcome)
        IN /\ heap' = [heap EXCEPT ![ref] = r.current]
           /\ calls' = [calls EXCEPT ![cur] = IF r.called THEN @ + 1 ELSE @]
           /\ failed' = [failed EXCEPT
                           ![cur] = IF r.called /\ outcome = "throw" THEN @ + 1 ELSE @]
           /\ uncaught' = [uncaught EXCEPT ![cur] = IF r.threw THEN @ + 1 ELSE @]
    /\ pending' = pending - 1
    /\ runs' = [runs EXCEPT ![cur] = @ + 1]
    /\ UNCHANGED <<mounted, cur, nextObj, refOf, deps, dom, renders>>

\* The host unmounts the instance; queued invocations are dropped.
Unmount ==
    /\ mounted
    /\ mounted' = FALSE
    /\ pending' = 0
    /\ deps' = << >>
    /\ dom' = << >>
    /\ UNCHANGED <<cur, nextObj, heap, refOf, renders, runs, calls, failed, uncaught>>

Next == Mount \/ Rerender \/ RunEffect \/ Unmount

Spec == Init /\ [][Next]_vars

\* ---------------------------------------------------------------- helpers
Created(i) == refOf[i] # NoObj
Flag(i) == Created(i) /\ heap[refOf[i]]
Live(i) == mounted /\ i = cur

TypeOK ==
    /\ mounted \in BOOLEAN
    /\ cur \in 0..MaxInstances
    /\ pending \in 0..(MaxInvocations + MaxRenders)
    /\ \A i \in Instances : calls[i] <= runs[i] /\ failed[i] <= calls[i]

\* steps of the host, recognised by the counters they advance
MountStep == cur' = cur + 1
EffectStep(i) == runs'[i] = runs[i] + 1
RerenderStep(i) == renders'[i] = renders[i] + 1 /\ cur' = cur
Succeeded(i) == calls[i] - failed[i]

\* ----------------------------------------------------------------- claims

\* C1: for one instance, after any number N >= 1 of invocations of the
\* effect callback, init has been called exactly once.
C1_ExactlyOnce ==
    \A i \in Instances : runs[i] >= 1 => calls[i] = 1

\* C2: in every reachable state, over every interleaving of mount, effect
\* invocation, re-render, init success and init failure, an instance has
\* called init at most once.
C2_AtMostOnce ==
    \A i \in Instances : calls[i] <= 1

\* C3: the flag of an instance is false when the instance is created, is
\* true after the first init call, and once true is never false again.
C3_FlagLifecycle ==
    [][ /\ MountStep => heap'[refOf'[cur']] = FALSE
        /\ \A i \in Instances :
              /\ calls'[i] >= 1 => Flag(i)'
              /\ Flag(i) => Flag(i)' ]_vars

\* the part of C3 the code keeps: a flag that is set stays set
FlagMonotonic ==
    [][ \A i \in Instances : Flag(i) => Flag(i)' ]_vars

\* C4: a freshly mounted instance starts with its flag unset and no init
\* call of its own, and its first effect invocation calls init once,
\* whatever earlier instances did.
C4_PerInstance ==
    [][ /\ MountStep =>
              /\ refOf'[cur'] # NoObj
              /\ heap'[refOf'[cur']] = FALSE
              /\ calls'[cur'] = 0
        /\ \A i \in Instances :
              EffectStep(i) /\ runs[i] = 0 => calls'[i] = 1 ]_vars

C4_Witness ==
    /\ cur = 2 /\ mounted
    /\ Flag(1) /\ calls[1] = 1
    /\ runs[2] = 1 /\ calls[2] = 1

\* C5: an effect invocation that finds the flag set makes no init call and
\* leaves the flag and the call counts unchanged.
C5_SetFlagNoOp ==
    [][ \A i \in Instances :
          EffectStep(i) /\ Flag(i) =>
              /\ heap' = heap
              /\ calls' = calls
              /\ failed' = failed
              /\ uncaught' = uncaught ]_vars

C5_Witness ==
    \E i \in Instances :
        Flag(i) /\ runs[i] = 2 /\ calls[i] = 1 /\ failed[i] = 0

\* C6: an init call that raises is not handled by the component: the
\* exception leaves the effect callback, and the component records nothing
\* (the rendered output and the ref are as before).
C6_FailureUncaught ==
    [][ \A i \in Instances :
          failed'[i] > failed[i] =>
              /\ uncaught'[i] = uncaught[i] + 1
              /\ dom' = dom
              /\ refOf' = refOf ]_vars

C6_Witness ==
    \E i \in Instances : failed[i] >= 1 /\ uncaught[i] = failed[i]

\* C7: within one instance, an init call that failed is never followed by
\* another init call.
C7_NoRetry ==
    [][ \A i \in Instances : failed[i] >= 1 => calls'[i] = calls[i] ]_vars

\* C8: a re-render of the mounted instance does not queue the effect again
\* and makes no init call: the dependency list holds the same ref object
\* on every render; the effect is queued by the first render only.
C8_FirstRenderOnly ==
    [][ /\ \A i \in Instances :
              RerenderStep(i) =>
                  /\ refOf'[i] = refOf[i]
                  /\ deps' = deps
                  /\ pending' = pending
                  /\ calls' = calls
        /\ pending' > pending => MountStep ]_vars

C8_Witness ==
    \E i \in Instances :
        Live(i) /\ renders[i] >= 2 /\ runs[i] >= 1 /\ calls[i] >= 1 /\ pending = 0

HasTag(t) == \E k \in DOMAIN dom : dom[k].tag = t
HasCanvas ==
    \E k \in DOMAIN dom :
        dom[k] = [tag |-> "canvas", id |-> "canvas", width |-> 1200, height |-> 600]

\* C9 (as stated): the route renders a heading, a paragraph and a canvas
\* 1200 wide and 600 high that carries the id.
C9_HeadingParagraphCanvas ==
    mounted => HasTag("h1") /\ HasTag("p") /\ HasCanvas

\* C9 (amended): the route renders a heading and a canvas 1200 wide and 600
\* high with id "canvas", inside one div, and no paragraph.
C9_HeadingCanvas ==
    mounted =>
        /\ [k \in DOMAIN dom |-> dom[k].tag] = <<"div", "h1", "canvas">>
        /\ HasCanvas
        /\ ~HasTag("p")

C9_Witness ==
    mounted /\ renders[cur] >= 2 /\ HasTag("canvas")

\* C10: a set flag implies an init call of that instance has returned; an
\* init call that raises leaves the flag false.
C10_FlagAfterInit ==
    [][ \A i \in Instances :
          /\ Flag(i)' => calls'[i] - failed'[i] >= 1
          /\ failed'[i] > failed[i] => ~Flag(i) /\ ~Flag(i)' ]_vars

C10_Witness ==
    \E i \in Instances : failed[i] >= 1 /\ Flag(i) /\ Succeeded(i) = 1

====
